---- MODULE Spec2Model ----
(***************************************************************************)
(* Expense tracker (src/app.py): a ledger kept in the CSV file             *)
(* expenses.csv, a process-wide savings goal, and the Flask handlers that  *)
(* read and rewrite them.                                                  *)
(*                                                                         *)
(* A Python str is a sequence of one-character strings, so lower(),        *)
(* float(), int(), strptime() and strftime() are computed character by     *)
(* character.  The file is the sequence of rows csv.reader yields for it   *)
(* (one sequence of str per line); csv.writer's conversion of the values   *)
(* it is handed (None, float) is explicit in writerow / float_repr.        *)
(***************************************************************************)
EXTENDS Integers, Sequences, FiniteSets, TLC

(* ---------------- bounds ---------------- *)
MaxRows == 3        \* lines the file may hold (header line included)
MaxUpload == 1      \* lines of an uploaded file

(* ---------------- string constants ---------------- *)
sDate == <<"D", "a", "t", "e">>
sName == <<"N", "a", "m", "e">>
sCategory == <<"C", "a", "t", "e", "g", "o", "r", "y">>
sAmount == <<"A", "m", "o", "u", "n", "t">>
sAll == <<"A", "l", "l">>
sIncome == <<"I", "n", "c", "o", "m", "e">>
s_income == <<"i", "n", "c", "o", "m", "e">>
sEmpty == <<>>

\* Python's None: a one-element sequence whose element is no character,
\* so it equals no str.
None == <<"None">>

\* the header row written by init_file and overwrite_expenses
HEADER == <<sDate, sName, sCategory, sAmount>>

(* ---------------- str methods and conversions ---------------- *)
UPPER == <<"A", "B", "C", "D", "E", "F", "G", "H", "I", "J", "K", "L", "M",
           "N", "O", "P", "Q", "R", "S", "T", "U", "V", "W", "X", "Y", "Z">>
LOWER == <<"a", "b", "c", "d", "e", "f", "g", "h", "i", "j", "k", "l", "m",
           "n", "o", "p", "q", "r", "s", "t", "u", "v", "w", "x", "y", "z">>
DIGITS == <<"0", "1", "2", "3", "4", "5", "6", "7", "8", "9">>

\* the lower-case letter of each upper-case one, the value of each digit
ToLower == [c \in {UPPER[i] : i \in 1..26} |->
               LOWER[CHOOSE i \in 1..26 : UPPER[i] = c]]
DigitValue == [c \in {DIGITS[i] : i \in 1..10} |->
                  (CHOOSE i \in 1..10 : DIGITS[i] = c) - 1]

lowerChar(c) == IF c \in DOMAIN ToLower THEN ToLower[c] ELSE c

\* str.lower()
lower(s) == [i \in 1..Len(s) |-> lowerChar(s[i])]

IsDigit(c) == c \in DOMAIN DigitValue
DigitVal(c) == DigitValue[c]

AllDigits(s) == Len(s) > 0 /\ \A i \in 1..Len(s) : IsDigit(s[i])

RECURSIVE DigitsVal(_)
DigitsVal(s) ==
    IF Len(s) = 0 THEN 0
    ELSE 10 * DigitsVal(SubSeq(s, 1, Len(s) - 1)) + DigitVal(s[Len(s)])

RECURSIVE NatStr(_)
NatStr(n) ==
    IF n < 10 THEN <<DIGITS[n + 1]>>
    ELSE NatStr(n \div 10) \o <<DIGITS[(n % 10) + 1]>>

\* str(int)
int_str(n) == IF n < 0 THEN <<"-">> \o NatStr(0 - n) ELSE NatStr(n)

Unsigned(s) ==
    IF Len(s) > 0 /\ s[1] \in {"-", "+"} THEN SubSeq(s, 2, Len(s)) ELSE s
Sign(s) == IF Len(s) > 0 /\ s[1] = "-" THEN 0 - 1 ELSE 1

\* int(s): an optional sign and decimal digits; anything else raises
\* ValueError (ok = FALSE).
int(s) ==
    IF s # None /\ AllDigits(Unsigned(s))
    THEN [ok |-> TRUE, val |-> Sign(s) * DigitsVal(Unsigned(s))]
    ELSE [ok |-> FALSE, val |-> 0]

\* A float is held in tenths (4.5 is 45); the amounts of the model carry
\* at most one fractional digit, and that digit is 0 or 5, so that binary
\* floating point adds them exactly.
DotAt(s) == IF \E i \in 1..Len(s) : s[i] = "."
            THEN CHOOSE i \in 1..Len(s) : s[i] = "."
            ELSE 0

\* float(s): sign, digits, optional point and one fractional digit; None
\* raises TypeError and any other text ValueError (ok = FALSE).
float(s) ==
    IF s = None THEN [ok |-> FALSE, val |-> 0]
    ELSE LET u == Unsigned(s)
             d == DotAt(u)
             ip == IF d = 0 THEN u ELSE SubSeq(u, 1, d - 1)
             fp == IF d = 0 THEN <<>> ELSE SubSeq(u, d + 1, Len(u))
         IN IF /\ Len(ip) + Len(fp) > 0
               /\ Len(fp) <= 1
               /\ \A i \in 1..Len(ip) : IsDigit(ip[i])
               /\ \A i \in 1..Len(fp) : IsDigit(fp[i])
            THEN [ok |-> TRUE,
                  val |-> Sign(s) * (10 * DigitsVal(ip) + DigitsVal(fp))]
            ELSE [ok |-> FALSE, val |-> 0]

\* str(float), as csv.writer applies it to a float cell: 100.0, 4.5
float_repr(x) ==
    LET a == IF x < 0 THEN 0 - x ELSE x
    IN (IF x < 0 THEN <<"-">> ELSE <<>>)
       \o NatStr(a \div 10) \o <<".">> \o NatStr(a % 10)

IsLeap(y) == (y % 4 = 0 /\ y % 100 # 0) \/ y % 400 = 0
DaysIn(y, m) ==
    IF m = 2 THEN (IF IsLeap(y) THEN 29 ELSE 28)
    ELSE IF m \in {4, 6, 9, 11} THEN 30 ELSE 31

\* datetime.strptime(s, "%Y-%m-%d"): four digits, "-", a month of one or
\* two digits in 1..12, "-", a day of one or two digits (or a space and a
\* digit) that exists in that month; everything else raises (ok = FALSE),
\* None included.
strptime(s) ==
    LET bad == [ok |-> FALSE, year |-> 0, month |-> 0, day |-> 0]
    IN IF s = None \/ Len(s) < 8 THEN bad
       ELSE LET p == IF s[7] = "-" THEN 7 ELSE 8
                ys == SubSeq(s, 1, 4)
                ms == SubSeq(s, 6, p - 1)
                ds0 == SubSeq(s, p + 1, Len(s))
                ds == IF Len(ds0) = 2 /\ ds0[1] = " " THEN <<ds0[2]>> ELSE ds0
            IN IF /\ AllDigits(ys) /\ s[5] = "-" /\ s[p] = "-"
                  /\ AllDigits(ms) /\ AllDigits(ds) /\ Len(ds) <= 2
               THEN LET y == DigitsVal(ys)
                        m == DigitsVal(ms)
                        d == DigitsVal(ds)
                    IN IF y >= 1 /\ m \in 1..12 /\ d >= 1 /\ d <= DaysIn(y, m)
                       THEN [ok |-> TRUE, year |-> y, month |-> m, day |-> d]
                       ELSE bad
               ELSE bad

Pad(n, w) ==
    LET t == NatStr(n)
    IN [i \in 1..(w - Len(t)) |-> "0"] \o t

\* dt.strftime("%Y-%m")
strftime_Ym(dt) == Pad(dt.year, 4) \o <<"-">> \o Pad(dt.month, 2)

\* dt.strftime("%Y-%m-%d")
strftime_Ymd(dt) == strftime_Ym(dt) \o <<"-">> \o Pad(dt.day, 2)

(* ---------------- request inputs ---------------- *)
d_2023_04_15 == <<"2", "0", "2", "3", "-", "0", "4", "-", "1", "5">>
d_2024_13_01 == <<"2", "0", "2", "4", "-", "1", "3", "-", "0", "1">>
d_2024_03_01 == <<"2", "0", "2", "4", "-", "0", "3", "-", "0", "1">>
sJob == <<"J", "o", "b">>
sFood == <<"F", "o", "o", "d">>
s_food == <<"f", "o", "o", "d">>
s4_5 == <<"4", ".", "5">>
s100 == <<"1", "0", "0">>
s250_5 == <<"2", "5", "0", ".", "5">>
s_abc == <<"a", "b", "c">>
s_x == <<"x">>
s3 == <<"3">>
s2024 == <<"2", "0", "2", "4">>
s_a_csv == <<"a", ".", "c", "s", "v">>
s_a_txt == <<"a", ".", "t", "x", "t">>
s_dot_csv == <<".", "c", "s", "v">>

\* datetime.now()
Clock == {[ok |-> TRUE, year |-> 2024, month |-> 3, day |-> 1]}

\* request.form of /add
FormDates == {sEmpty, d_2024_13_01}
FormNames == {sJob}
FormCategories == {sFood}
FormAmounts == {s4_5}
\* request.form.get("income_amount"): None when the field is missing
IncomeAmounts == {None, sEmpty, s100, s_x}
\* request.form["index"]
IndexInputs == {int_str(i) : i \in (0 - 1)..(MaxRows - 1)} \cup {s_x}
\* request.form["goal"]
GoalInputs == {s250_5, s_abc}
\* request.args of /
FilterCats == {sAll, s_food}
FilterMonths == {sAll, s3}
FilterYears == {sAll, s2024}
\* request.files["file"]: its filename and the rows csv.reader yields
Filenames == {s_a_csv, s_a_txt}
UploadRows == {HEADER,
               <<d_2024_03_01, sJob, sFood>>,
               <<d_2023_04_15, sJob, sFood, s4_5, s_x>>,
               <<>>}
Uploads == UNION {[1..n -> UploadRows] : n \in 0..MaxUpload}

(* ---------------- state ---------------- *)
VARIABLES
    DATA_FILE,      \* expenses.csv: [exists, rows]
    savings_goal,   \* the global savings_goal, in tenths
    resp,           \* the last request and its response
    pend,           \* a /delete or /load request between its read and its write
    landed          \* rows appended while that request was pending

vars == <<DATA_FILE, savings_goal, resp, pend, landed>>

NoPending == [kind |-> "none"]

(* ---------------- helpers of app.py ---------------- *)
\* csv.writer.writerow: None is written as the empty string
writerow(row) == [i \in 1..Len(row) |-> IF row[i] = None THEN sEmpty ELSE row[i]]

\* one row of csv.DictReader: dict(zip(fieldnames, row)), the surplus cells
\* under the key None, the missing ones set to None
DictRow(fieldnames, row) ==
    LET lf == Len(fieldnames)
        lr == Len(row)
        keys == {fieldnames[i] : i \in 1..lf}
                    \cup (IF lf < lr THEN {None} ELSE {})
        last(k) == CHOOSE i \in 1..lf :
                       fieldnames[i] = k /\ \A j \in (i + 1)..lf : fieldnames[j] # k
    IN [k \in keys |->
            IF k = None THEN SubSeq(row, lf + 1, lr)
            ELSE IF last(k) <= lr THEN row[last(k)] ELSE None]

\* list(csv.DictReader(f)): the first line is the field names, blank lines
\* are skipped
DictReader(rows) ==
    IF Len(rows) = 0 THEN <<>>
    ELSE LET body == SelectSeq(Tail(rows), LAMBDA r : Len(r) > 0)
         IN [i \in 1..Len(body) |-> DictRow(rows[1], body[i])]

init_file(f) ==
    IF f.exists THEN f ELSE [exists |-> TRUE, rows |-> <<HEADER>>]

\* ok = FALSE: FileNotFoundError
load_expenses(f) ==
    IF f.exists THEN [ok |-> TRUE, val |-> DictReader(f.rows)]
    ELSE [ok |-> FALSE, val |-> <<>>]

\* save_expense opening the file with "w" instead of "a"
save_expense_truncating(f, date, name, category, amount) ==
    [exists |-> TRUE,
     rows |-> <<writerow(<<date, name, category, amount>>)>>]

save_expense(f, date, name, category, amount) ==
    [exists |-> TRUE,
     rows |-> Append(f.rows, writerow(<<date, name, category, amount>>))]

\* overwrite_expenses opening the file with "a" instead of "w"
overwrite_expenses_appending(f, rows) ==
    [exists |-> TRUE,
     rows |-> f.rows \o <<HEADER>> \o [i \in 1..Len(rows) |-> writerow(rows[i])]]

overwrite_expenses(f, rows) ==
    [exists |-> TRUE,
     rows |-> <<HEADER>> \o [i \in 1..Len(rows) |-> writerow(rows[i])]]

Raised == [ok |-> FALSE, val |-> <<>>]

\* the category test without .lower()
is_income_exact(e) ==
    IF sCategory \in DOMAIN e /\ e[sCategory] # None
    THEN [ok |-> TRUE, val |-> e[sCategory] = s_income]
    ELSE [ok |-> FALSE, val |-> FALSE]

\* e["Category"].lower() == "income"; ok = FALSE: KeyError or AttributeError
is_income(e) ==
    IF sCategory \in DOMAIN e /\ e[sCategory] # None
    THEN [ok |-> TRUE, val |-> lower(e[sCategory]) = s_income]
    ELSE [ok |-> FALSE, val |-> FALSE]

\* float(e["Amount"]); ok = FALSE: KeyError, TypeError or ValueError
amount_of(e) ==
    IF sAmount \in DOMAIN e THEN float(e[sAmount]) ELSE [ok |-> FALSE, val |-> 0]

\* datetime.strptime(e["Date"], "%Y-%m-%d") under the bare except
date_of(e) ==
    IF sDate \in DOMAIN e THEN strptime(e[sDate]) ELSE strptime(None)

EmptyDict == [k \in {} |-> 0]

\* d[k] = x in place of d[k] += x
dict_set(d, k, x) ==
    [j \in DOMAIN d \cup {k} |-> IF j = k THEN x ELSE d[j]]

\* d[k] += x on a defaultdict(float)
dict_add(d, k, x) ==
    [j \in DOMAIN d \cup {k} |->
        (IF j \in DOMAIN d THEN d[j] ELSE 0) + (IF j = k THEN x ELSE 0)]

\* str.endswith
endswith(s, suffix) ==
    /\ Len(s) >= Len(suffix)
    /\ SubSeq(s, Len(s) - Len(suffix) + 1, Len(s)) = suffix

(* ---------------- index: filters and totals ---------------- *)
\* cat.lower() == e["Category"].lower(), without the .lower() calls
category_matches_exact(cat, e) == cat = e[sCategory]

\* cat.lower() == e["Category"].lower()
category_matches(cat, e) == lower(cat) = lower(e[sCategory])

\* the loop over expenses; ok = FALSE when int(), e["Category"] or
\* .lower() raises on a record whose date parsed
RECURSIVE filter_expenses(_, _, _, _)
filter_expenses(expenses, cat, mon, yr) ==
    IF Len(expenses) = 0 THEN [ok |-> TRUE, val |-> <<>>]
    ELSE LET e == Head(expenses)
             dt == date_of(e)
             m == int(mon)
             y == int(yr)
             raises == \/ mon # sAll /\ ~m.ok
                       \/ yr # sAll /\ ~y.ok
                       \/ cat # sAll /\ ~is_income(e).ok
             ok == /\ mon # sAll => dt.month = m.val
                   /\ yr # sAll => dt.year = y.val
                   /\ cat # sAll => category_matches(cat, e)
             rest == filter_expenses(Tail(expenses), cat, mon, yr)
         IN IF ~dt.ok THEN rest
            ELSE IF raises \/ ~rest.ok THEN Raised
            ELSE IF ok THEN [ok |-> TRUE, val |-> <<e>> \o rest.val]
            ELSE rest

\* sum(float(e["Amount"]) for e in filtered if <category test>), the test
\* being e["Category"].lower() == "income" when income, != otherwise
RECURSIVE sum_amounts(_, _)
sum_amounts(filtered, income) ==
    IF Len(filtered) = 0 THEN [ok |-> TRUE, val |-> 0]
    ELSE LET e == Head(filtered)
             inc == is_income(e)
             a == amount_of(e)
             rest == sum_amounts(Tail(filtered), income)
         IN IF ~inc.ok THEN [ok |-> FALSE, val |-> 0]
            ELSE IF inc.val # income THEN rest
            ELSE IF ~a.ok \/ ~rest.ok THEN [ok |-> FALSE, val |-> 0]
            ELSE [ok |-> TRUE, val |-> a.val + rest.val]

index(cat, mon, yr) ==
    LET f == init_file(DATA_FILE)
        expenses == load_expenses(f).val
        filtered == filter_expenses(expenses, cat, mon, yr)
        total_exp == sum_amounts(filtered.val, FALSE)
        total_inc == sum_amounts(filtered.val, TRUE)
        args == [cat |-> cat, month |-> mon, year |-> yr]
    IN /\ DATA_FILE' = f
       /\ resp' = IF filtered.ok /\ total_exp.ok /\ total_inc.ok
                  THEN [op |-> "index", status |-> 200, args |-> args,
                        expenses |-> filtered.val,
                        total_exp |-> total_exp.val,
                        total_inc |-> total_inc.val,
                        balance |-> total_inc.val - total_exp.val,
                        goal |-> savings_goal]
                  ELSE [op |-> "index", status |-> 500, args |-> args]
       /\ UNCHANGED <<savings_goal, pend, landed>>

(* ---------------- mutations ---------------- *)
add(date, name, category, amount, now) ==
    LET d == IF date # sEmpty THEN date ELSE strftime_Ymd(now)
        row == <<d, name, category, amount>>
    IN /\ Len(DATA_FILE.rows) < MaxRows
       /\ DATA_FILE' = save_expense(DATA_FILE, d, name, category, amount)
       /\ landed' = IF pend = NoPending THEN <<>> ELSE Append(landed, row)
       /\ resp' = [op |-> "add", status |-> 302, row |-> row]
       /\ UNCHANGED <<savings_goal, pend>>

add_income(amount, now) ==
    LET amt == float(amount)
        row == <<strftime_Ymd(now), sIncome, sIncome, float_repr(amt.val)>>
    IN IF amount = None \/ amount = sEmpty \/ ~amt.ok
       THEN /\ resp' = [op |-> "add_income", status |-> 302, row |-> <<>>]
            /\ UNCHANGED <<DATA_FILE, savings_goal, pend, landed>>
       ELSE /\ Len(DATA_FILE.rows) < MaxRows
            /\ DATA_FILE' = save_expense(DATA_FILE, row[1], row[2], row[3], row[4])
            /\ landed' = IF pend = NoPending THEN <<>> ELSE Append(landed, row)
            /\ resp' = [op |-> "add_income", status |-> 302, row |-> row]
            /\ UNCHANGED <<savings_goal, pend>>

\* [[e["Date"], e["Name"], e["Category"], e["Amount"]]
\*     for i, e in enumerate(expenses) if i != idx]; ok = FALSE: KeyError
delete_rows(expenses, idx) ==
    LET keep == SelectSeq([i \in 1..Len(expenses) |-> i],
                          LAMBDA i : i - 1 # idx)
    IN IF \A n \in 1..Len(keep) : {sDate, sName, sCategory, sAmount}
                                     \subseteq DOMAIN expenses[keep[n]]
       THEN [ok |-> TRUE,
             val |-> [n \in 1..Len(keep) |->
                        LET e == expenses[keep[n]]
                        IN <<e[sDate], e[sName], e[sCategory], e[sAmount]>>]]
       ELSE Raised

\* the part of delete before the write: int(), load_expenses, rows
delete_read(f, raw) ==
    LET idx == int(raw)
        expenses == load_expenses(f)
    IN IF ~idx.ok \/ ~expenses.ok THEN Raised
       ELSE delete_rows(expenses.val, idx.val)

delete(raw) ==
    LET rows == delete_read(DATA_FILE, raw)
    IN /\ IF rows.ok
          THEN /\ DATA_FILE' = overwrite_expenses(DATA_FILE, rows.val)
               /\ resp' = [op |-> "delete", status |-> 302, index |-> raw]
          ELSE /\ resp' = [op |-> "delete", status |-> 500, index |-> raw]
               /\ UNCHANGED DATA_FILE
       /\ UNCHANGED <<savings_goal, pend, landed>>

\* the try/except of set_goal with "pass" in the except branch
parsed_goal_or_old(goal) ==
    IF float(goal).ok THEN float(goal).val ELSE savings_goal

\* the value the try/except of set_goal assigns
parsed_goal(goal) ==
    IF float(goal).ok THEN float(goal).val ELSE 0

set_goal(goal) ==
    /\ savings_goal' = parsed_goal(goal)
    /\ resp' = [op |-> "set_goal", status |-> 302, goal |-> goal]
    /\ UNCHANGED <<DATA_FILE, pend, landed>>

(* ---------------- chart views ---------------- *)
\* the loop of chart_data: totals[e["Category"]] += float(e["Amount"])
RECURSIVE category_totals(_)
category_totals(expenses) ==
    IF Len(expenses) = 0 THEN [ok |-> TRUE, val |-> EmptyDict]
    ELSE LET n == Len(expenses)
             e == expenses[n]
             totals == category_totals(SubSeq(expenses, 1, n - 1))
             a == amount_of(e)
         IN IF ~totals.ok \/ sCategory \notin DOMAIN e \/ ~a.ok THEN Raised
            ELSE [ok |-> TRUE,
                  val |-> dict_add(totals.val, e[sCategory], a.val)]

\* jsonify of a dict with the key None is left to the JSON provider in
\* use: it answers or it raises
chart_data(status) ==
    LET expenses == load_expenses(DATA_FILE)
        totals == category_totals(expenses.val)
    IN /\ resp' = IF expenses.ok /\ totals.ok
                     /\ (status = 200 \/ None \notin DOMAIN totals.val)
                  THEN [op |-> "chart_data", status |-> 200,
                        body |-> totals.val]
                  ELSE [op |-> "chart_data", status |-> 500,
                        body |-> EmptyDict]
       /\ UNCHANGED <<DATA_FILE, savings_goal, pend, landed>>

\* the loop of monthly_trend
RECURSIVE monthly_totals(_)
monthly_totals(expenses) ==
    IF Len(expenses) = 0 THEN [ok |-> TRUE, val |-> EmptyDict]
    ELSE LET n == Len(expenses)
             e == expenses[n]
             monthly == monthly_totals(SubSeq(expenses, 1, n - 1))
             dt == date_of(e)
             inc == is_income(e)
             a == amount_of(e)
         IN IF ~monthly.ok THEN Raised
            ELSE IF ~dt.ok THEN monthly
            ELSE IF ~inc.ok THEN Raised
            ELSE IF inc.val THEN monthly
            ELSE IF ~a.ok THEN Raised
            ELSE [ok |-> TRUE,
                  val |-> dict_add(monthly.val, strftime_Ym(dt), a.val)]

monthly_trend ==
    LET expenses == load_expenses(DATA_FILE)
        monthly == monthly_totals(expenses.val)
    IN /\ resp' = IF expenses.ok /\ monthly.ok
                  THEN [op |-> "monthly_trend", status |-> 200,
                        body |-> monthly.val]
                  ELSE [op |-> "monthly_trend", status |-> 500,
                        body |-> EmptyDict]
       /\ UNCHANGED <<DATA_FILE, savings_goal, pend, landed>>

(* ---------------- export and import ---------------- *)
\* send_file(DATA_FILE): the bytes of the file, as the rows csv.reader
\* yields for them
export_filtered ==
    /\ resp' = IF DATA_FILE.exists
               THEN [op |-> "export", status |-> 200, body |-> DATA_FILE.rows]
               ELSE [op |-> "export", status |-> 500, body |-> <<>>]
    /\ UNCHANGED <<DATA_FILE, savings_goal, pend, landed>>

\* the rows load_csv hands to overwrite_expenses
load_csv_rows(rows) ==
    IF Len(rows) > 0 /\ rows[1] = HEADER THEN Tail(rows) ELSE rows

load_csv(filename, rows) ==
    /\ IF endswith(filename, s_dot_csv)
       THEN /\ Len(load_csv_rows(rows)) < MaxRows
            /\ DATA_FILE' = overwrite_expenses(DATA_FILE, load_csv_rows(rows))
       ELSE UNCHANGED DATA_FILE
    /\ resp' = [op |-> "load", status |-> 302, filename |-> filename,
                rows |-> IF endswith(filename, s_dot_csv) THEN rows ELSE <<>>]
    /\ UNCHANGED <<savings_goal, pend, landed>>

\* what a client may upload: any file of Uploads, or the attachment the
\* last /export answered with
UploadChoices ==
    Uploads \cup (IF resp.op = "export" /\ resp.status = 200
                  THEN {resp.body} ELSE {})

(* ---------------- the sequential program ---------------- *)
Init ==
    /\ DATA_FILE = [exists |-> FALSE, rows |-> <<>>]
    /\ savings_goal = 0
    /\ resp = [op |-> "start", status |-> 0]
    /\ pend = NoPending
    /\ landed = <<>>

Next ==
    \/ \E cat \in FilterCats, mon \in FilterMonths, yr \in FilterYears :
           index(cat, mon, yr)
    \/ \E date \in FormDates, name \in FormNames, category \in FormCategories,
          amount \in FormAmounts, now \in Clock :
           add(date, name, category, amount, now)
    \/ \E amount \in IncomeAmounts, now \in Clock : add_income(amount, now)
    \/ \E raw \in IndexInputs : delete(raw)
    \/ \E goal \in GoalInputs : set_goal(goal)
    \/ \E status \in {200, 500} : chart_data(status)
    \/ monthly_trend
    \/ export_filtered
    \/ \E filename \in Filenames, rows \in UploadChoices : load_csv(filename, rows)

Spec == Init /\ [][Next]_vars

(* ---------------- concurrent requests ---------------- *)
\* The server runs each request on its own thread.  /delete and /load are
\* split where they can be overtaken: after load_expenses (or the read of
\* the upload) and before overwrite_expenses.
delete_begin(raw) ==
    LET rows == delete_read(DATA_FILE, raw)
    IN /\ pend = NoPending
       /\ IF rows.ok
          THEN /\ pend' = [kind |-> "delete", rows |-> rows.val, arg |-> raw]
               /\ landed' = <<>>
               /\ UNCHANGED resp
          ELSE /\ resp' = [op |-> "delete", status |-> 500, index |-> raw]
               /\ UNCHANGED <<pend, landed>>
       /\ UNCHANGED <<DATA_FILE, savings_goal>>

load_csv_begin(filename, rows) ==
    /\ pend = NoPending
    /\ endswith(filename, s_dot_csv)
    /\ Len(load_csv_rows(rows)) < MaxRows
    /\ pend' = [kind |-> "load", rows |-> load_csv_rows(rows), arg |-> rows]
    /\ landed' = <<>>
    /\ UNCHANGED <<DATA_FILE, savings_goal, resp>>

\* the overwrite_expenses call of the pending /delete or /load
pending_write ==
    /\ pend # NoPending
    /\ DATA_FILE' = overwrite_expenses(DATA_FILE, pend.rows)
    /\ resp' = IF pend.kind = "delete"
               THEN [op |-> "delete", status |-> 302, index |-> pend.arg]
               ELSE [op |-> "load", status |-> 302, filename |-> s_a_csv,
                     rows |-> pend.arg]
    /\ pend' = NoPending
    /\ UNCHANGED <<savings_goal, landed>>

NextRace ==
    \/ \E date \in FormDates, name \in FormNames, category \in FormCategories,
          amount \in FormAmounts, now \in Clock :
           add(date, name, category, amount, now)
    \/ \E amount \in IncomeAmounts, now \in Clock : add_income(amount, now)
    \/ \E raw \in IndexInputs : delete_begin(raw)
    \/ \E filename \in Filenames, rows \in Uploads : load_csv_begin(filename, rows)
    \/ pending_write

SpecRace == Init /\ [][NextRace]_vars

(* ---------------- vocabulary of the properties ---------------- *)
HeaderKeys == {sDate, sName, sCategory, sAmount}

\* loadAll
Ledger(f) == load_expenses(f).val

\* the store holds a file whose first line is the header
HeaderFirst(f) == f.exists /\ Len(f.rows) > 0 /\ f.rows[1] = HEADER

\* the record a four-cell row stands for
RecordOf(row) ==
    [k \in HeaderKeys |->
        IF k = sDate THEN row[1]
        ELSE IF k = sName THEN row[2]
        ELSE IF k = sCategory THEN row[3] ELSE row[4]]

Missing == <<"KeyError">>

\* the four field values of a loaded record
FourFields(e) == [k \in HeaderKeys |-> IF k \in DOMAIN e THEN e[k] ELSE Missing]
FourFieldsOf(ledger) == [i \in 1..Len(ledger) |-> FourFields(ledger[i])]

\* the sequence without its element at the 0-based position i
RemoveAt(seq, i) ==
    [n \in 1..(Len(seq) - 1) |-> IF n <= i THEN seq[n] ELSE seq[n + 1]]

\* two strings equal up to the case of their letters
SameLetter(a, b) ==
    a = b \/ \E i \in 1..26 : {a, b} = {UPPER[i], LOWER[i]}
EqualIgnoringCase(a, b) ==
    /\ a # None /\ b # None
    /\ Len(a) = Len(b)
    /\ \A i \in 1..Len(a) : SameLetter(a[i], b[i])

IsIncomeRecord(e) ==
    sCategory \in DOMAIN e /\ EqualIgnoringCase(e[sCategory], sIncome)

HasParseableDate(e) == sDate \in DOMAIN e /\ strptime(e[sDate]).ok

RECURSIVE SumOver(_, _)
\* the sum of the amounts of the records of seq at the positions of S
SumOver(S, seq) ==
    IF S = {} THEN 0
    ELSE LET i == CHOOSE i \in S : TRUE
         IN float(seq[i][sAmount]).val + SumOver(S \ {i}, seq)

(* ---------------- C1 ---------------- *)
\* C1: on a store whose first line is the header, every append (/add, or
\* /add_income with a numeric amount) leaves a ledger that is the ledger
\* before followed by exactly the appended record.
C1_AppendExtendsLedger ==
    [][(/\ resp'.op \in {"add", "add_income"}
        /\ Len(resp'.row) > 0
        /\ HeaderFirst(DATA_FILE))
       => Ledger(DATA_FILE') = Append(Ledger(DATA_FILE), RecordOf(resp'.row))]_vars

C1_Witness ==
    /\ resp.op = "add_income" /\ Len(resp.row) > 0
    /\ HeaderFirst(DATA_FILE)
    /\ Len(Ledger(DATA_FILE)) = 2
    /\ Ledger(DATA_FILE)[1] # Ledger(DATA_FILE)[2]
    /\ Ledger(DATA_FILE)[2] = RecordOf(resp.row)

(* ---------------- C2 ---------------- *)
\* C2: /delete with a valid index i of the loaded N-record ledger leaves
\* the N-1 records of the original without the one at position i, each
\* with its four field values, in the same order.
C2_DeleteRemovesIndex ==
    [][(/\ resp'.op = "delete"
        /\ DATA_FILE.exists
        /\ int(resp'.index).ok
        /\ int(resp'.index).val \in 0..(Len(Ledger(DATA_FILE)) - 1))
       => /\ resp'.status = 302
          /\ FourFieldsOf(Ledger(DATA_FILE')) =
                 RemoveAt(FourFieldsOf(Ledger(DATA_FILE)), int(resp'.index).val)]_vars

(* ---------------- C3 ---------------- *)
\* C3: uploading the attachment /export answered with leaves a ledger
\* equal to the one loaded before the export.
C3_ExportImportRoundTrip ==
    [][(/\ resp.op = "export" /\ resp.status = 200
        /\ resp'.op = "load"
        /\ endswith(resp'.filename, s_dot_csv)
        /\ resp'.rows = resp.body)
       => Ledger(DATA_FILE') = Ledger(DATA_FILE)]_vars

(* ---------------- C4 ---------------- *)
PassesFilters(e, args) ==
    /\ HasParseableDate(e)
    /\ args.cat # sAll => /\ sCategory \in DOMAIN e
                          /\ EqualIgnoringCase(args.cat, e[sCategory])
    /\ args.month # sAll => strptime(e[sDate]).month = int(args.month).val
    /\ args.year # sAll => strptime(e[sDate]).year = int(args.year).val

\* C4: the list / answers with is the subsequence, in ledger order, of the
\* records whose date parses and that satisfy every filter that is not
\* "All"; a record whose date does not parse is in no answer.
C4_FilterIsSubsequence ==
    (resp.op = "index" /\ resp.status = 200)
    => /\ resp.expenses =
              SelectSeq(Ledger(DATA_FILE), LAMBDA e : PassesFilters(e, resp.args))
       /\ \A i \in 1..Len(resp.expenses) : HasParseableDate(resp.expenses[i])
       /\ (resp.args.cat = sAll /\ resp.args.month = sAll /\ resp.args.year = sAll)
          => resp.expenses = SelectSeq(Ledger(DATA_FILE), HasParseableDate)

C4_Witness ==
    /\ resp.op = "index" /\ resp.status = 200
    /\ resp.args.cat = s_food
    /\ resp.args.month = s3
    /\ Len(Ledger(DATA_FILE)) = 2
    /\ Len(resp.expenses) = 1
    /\ \E i \in 1..2 : ~HasParseableDate(Ledger(DATA_FILE)[i])

(* ---------------- C5 ---------------- *)
\* C5: the totals / answers with are the sum of the amounts of the listed
\* records that are not income, the sum of those that are (category
\* "income" in any case), and income minus expense; every listed record
\* is in exactly one sum, and an empty list gives (0, 0, 0).
C5_Totals ==
    (resp.op = "index" /\ resp.status = 200)
    => LET rows == resp.expenses
           inc == {i \in 1..Len(rows) : IsIncomeRecord(rows[i])}
           exp == {i \in 1..Len(rows) : ~IsIncomeRecord(rows[i])}
       IN /\ resp.total_exp = SumOver(exp, rows)
          /\ resp.total_inc = SumOver(inc, rows)
          /\ resp.balance = resp.total_inc - resp.total_exp
          /\ resp.total_exp + resp.total_inc = SumOver(1..Len(rows), rows)
          /\ Len(rows) = 0 =>
                 resp.total_exp = 0 /\ resp.total_inc = 0 /\ resp.balance = 0

C5_Witness ==
    /\ resp.op = "index" /\ resp.status = 200
    /\ Len(resp.expenses) = 2
    /\ resp.total_exp = 45
    /\ resp.total_inc = 1000
    /\ resp.balance = 955

(* ---------------- C6 ---------------- *)
\* the records /monthly_trend sums: a date that parses, not income
Contributes(e) == HasParseableDate(e) /\ ~IsIncomeRecord(e)
MonthKey(e) == strftime_Ym(strptime(e[sDate]))

\* C6: /monthly_trend maps each "YYYY-MM" to the sum of the amounts of the
\* records of that year and month that are not income; income records and
\* records whose date does not parse count under no key, and every key has
\* a record that counts.
C6_MonthlyTrend ==
    (resp.op = "monthly_trend" /\ resp.status = 200)
    => LET rows == Ledger(DATA_FILE)
           counted == {i \in 1..Len(rows) : Contributes(rows[i])}
       IN /\ DOMAIN resp.body = {MonthKey(rows[i]) : i \in counted}
          /\ \A k \in DOMAIN resp.body :
                 resp.body[k] =
                     SumOver({i \in counted : MonthKey(rows[i]) = k}, rows)

C6_Witness ==
    /\ resp.op = "monthly_trend" /\ resp.status = 200
    /\ Len(Ledger(DATA_FILE)) = 2
    /\ \E i \in 1..2 : IsIncomeRecord(Ledger(DATA_FILE)[i])
    /\ DOMAIN resp.body = {<<"2", "0", "2", "4", "-", "0", "3">>}
    /\ resp.body[<<"2", "0", "2", "4", "-", "0", "3">>] = 45

(* ---------------- C7 ---------------- *)
\* C7: the goal starts at 0.0; /set_goal sets it to the number its input
\* parses to, or to 0.0 when the input does not parse; no other request
\* changes it; / shows its current value.
C7_GoalFollowsLastSet ==
    /\ savings_goal = 0
    /\ [][/\ IF resp'.op = "set_goal"
             THEN savings_goal' = IF float(resp'.goal).ok
                                  THEN float(resp'.goal).val ELSE 0
             ELSE savings_goal' = savings_goal
          /\ (resp'.op = "index" /\ resp'.status = 200)
             => resp'.goal = savings_goal']_vars

C7_Witness ==
    /\ resp.op = "set_goal" /\ resp.goal = s_abc
    /\ savings_goal = 0
    /\ HeaderFirst(DATA_FILE) /\ Len(Ledger(DATA_FILE)) > 0

(* ---------------- C8 ---------------- *)
\* how many elements of seq equal x
Count(seq, x) == Cardinality({i \in 1..Len(seq) : seq[i] = x})

\* C8: when rows were appended between the read and the write of a
\* pending /delete or /load, the write leaves exactly the header and the
\* rows the request computed before them: no appended row is added to the
\* store, although each append was answered.
C8_AppendLostInRace ==
    [][(pend # NoPending /\ pend' = NoPending /\ Len(landed) > 0)
       => /\ Len(DATA_FILE'.rows) = 1 + Len(pend.rows)
          /\ \A i \in 1..Len(landed) :
                 Count(Tail(DATA_FILE'.rows), landed[i]) =
                     Count([n \in 1..Len(pend.rows) |-> writerow(pend.rows[n])],
                           landed[i])]_vars

C8_Witness ==
    /\ pend = NoPending
    /\ resp.op = "delete" /\ resp.status = 302
    /\ Len(landed) > 0
    /\ \A i \in 1..Len(landed) : Count(DATA_FILE.rows, landed[i]) = 0

(* ---------------- C9 ---------------- *)
\* C9: whenever the store exists its first line is the header.
C9_StoreStartsWithHeader == DATA_FILE.exists => HeaderFirst(DATA_FILE)

(* ---------------- C10 ---------------- *)
\* C10: /delete with an integer index outside 0..N-1 answers without an
\* error and leaves the same N records, each with its four field values,
\* in the same order.
C10_DeleteOutOfRangeKeepsAll ==
    [][(/\ resp'.op = "delete"
        /\ DATA_FILE.exists
        /\ int(resp'.index).ok
        /\ int(resp'.index).val \notin 0..(Len(Ledger(DATA_FILE)) - 1))
       => /\ resp'.status = 302
          /\ FourFieldsOf(Ledger(DATA_FILE')) = FourFieldsOf(Ledger(DATA_FILE))]_vars

====
